---------------------------- MODULE Spec2Model ----------------------------
(***************************************************************************)
(* A model of arxiv-daily.py: one invocation of the script (load_config    *)
(* followed by demo), which fetches papers per configured topic, prunes    *)
(* and reconciles the JSON store of each output target (README, GitPage)   *)
(* and renders each store to a markdown document.                          *)
(*                                                                         *)
(* Representation.                                                         *)
(*  - An entry key (paper_key) is a number; the order of the numbers is    *)
(*    the order Python's string comparison gives the keys.                 *)
(*  - A publish date is a day number; the text "YYYY-MM-DD" of a date is   *)
(*    represented by that number, and the text 0 is a text that is not a   *)
(*    date.  The order of the numbers is the order of the texts.           *)
(*  - A formatted row is the sequence of its '|'-separated parts, i.e.     *)
(*    what row.split('|') returns.  A part that carries bold markup is a   *)
(*    record [bold, text]; the link part is a record [id, url].            *)
(*  - A dict is a function; the insertion order of a dict is not kept      *)
(*    (sort_papers orders the entries of a topic by key, whatever the      *)
(*    order they were stored in).                                          *)
(*  - A file is a record [exists, empty, data]: a missing file, a file     *)
(*    with no content, or a file whose content is the JSON text of data.   *)
(***************************************************************************)
EXTENDS Integers, Sequences, FiniteSets, TLC

VARIABLES
    files,           \* target -> the JSON store file of the target
    docs,            \* target -> the markdown file of the target
    config,          \* the dictionary load_config returned to demo
    published,       \* provider: entry key -> publish date of the paper
    data_collector,  \* demo's list of the mappings get_daily_papers returned
    fetch,           \* what the latest get_daily_papers call did
    report,          \* what the latest update_json_file call returned
    start,           \* target -> the store file as it was when the script started
    pc,              \* demo's position
    cleanup,         \* target -> the cleanup_old_papers call demo made for it
    failed,          \* the topics whose get_daily_papers call caught an error
    call             \* the latest call of a text function, with what it returned

vars == <<files, docs, config, published, data_collector, fetch, report, start, pc,
          cleanup, failed, call>>

---------------------------------------------------------------------------
(* Bounds of the model *)

MaxKey == 2
MaxDay == 2

Keys == 1..MaxKey
Days == 1..MaxDay
Topics == {"A", "B"}
Targets == {"readme", "gitpage"}

\* datetime.datetime.now().date(): the run happens after every modelled publish date
Today == MaxDay + 1

---------------------------------------------------------------------------
(* Dicts and files *)

EmptyDict == << >>

Sum(f) ==
    LET RECURSIVE SumOver(_)
        SumOver(S) == IF S = {} THEN 0
                      ELSE LET x == CHOOSE y \in S : TRUE
                           IN f[x] + SumOver(S \ {x})
    IN SumOver(DOMAIN f)

\* sum(len(papers) for papers in m.values())
CountPapers(m) == Sum([t \in DOMAIN m |-> Cardinality(DOMAIN m[t])])

\* d.update(p)
DictUpdate(d, p) ==
    [k \in (DOMAIN d) \cup (DOMAIN p) |-> IF k \in DOMAIN p THEN p[k] ELSE d[k]]

DictSet(d, k, v) == DictUpdate(d, k :> v)

DictRestrict(d, S) == [k \in (DOMAIN d) \cap S |-> d[k]]

MissingFile == [exists |-> FALSE, empty |-> TRUE, data |-> EmptyDict]
EmptyFile == [exists |-> TRUE, empty |-> TRUE, data |-> EmptyDict]
JsonFile(m) == [exists |-> TRUE, empty |-> FALSE, data |-> m]

---------------------------------------------------------------------------
(* Formatted rows *)

Bold(text) == [bold |-> TRUE, text |-> text]

\* field.replace('**', '')
StripBold(field) == field.text

Link(paper_key) == [id |-> paper_key, url |-> paper_key]

\* the row get_daily_papers formats for one result
FormatRow(paper_key, paper_date, show_abstract) ==
    IF show_abstract
    THEN <<"", Bold(paper_date), Bold("title"), "last author", "cs.RO",
           Link(paper_key), "comments", "abstract", "\n">>
    ELSE <<"", Bold(paper_date), Bold("title"), "last author", "cs.RO",
           Link(paper_key), "comments", "\n">>

\* a stored row whose date field does not parse as a date
MalformedRow(paper_key) ==
    <<"", Bold(0), Bold("title"), "last author", "cs.RO",
      Link(paper_key), "comments", "\n">>

---------------------------------------------------------------------------
(* get_daily_papers *)

\* The provider yields the results `yielded` (entry keys, the version suffix
\* already removed) and then either ends the iteration or raises (`raised`).
\* content is filled result by result inside the try block; the except
\* clause logs the error and resets papers_found only.
get_daily_papers(topic, yielded, raised, show_abstract) ==
    LET content == [k \in yielded |-> FormatRow(k, published[k], show_abstract)]
    IN [data |-> topic :> content,
        log |-> [topic |-> topic, raised |-> raised, processed |-> yielded]]

---------------------------------------------------------------------------
(* remove_old_keywords and update_json_file *)

remove_old_keywords(json_data, current_keywords) ==
    LET keywords_to_remove == (DOMAIN json_data) \ current_keywords
    IN [json_data |-> DictRestrict(json_data, current_keywords),
        removed_keywords |->
            [kw \in keywords_to_remove |-> Cardinality(DOMAIN json_data[kw])]]

\* a slip: the size of the merged mapping taken for the number added
AddedCountNoDelta(before_count, after_count) == after_count

\* added_count = after_count - before_count
AddedCount(before_count, after_count) == after_count - before_count

\* One pass of the loop "for data in data_dict: for keyword in data.keys()".
MergeKeyword(acc, keyword, papers, clear_existing) ==
    LET n == Cardinality(DOMAIN papers)
        counted == [acc EXCEPT !.new_papers_count = @ + n]
    IN IF keyword \in DOMAIN acc.json_data
       THEN IF clear_existing
            THEN [counted EXCEPT
                    !.json_data = DictSet(@, keyword, papers),
                    !.category_updates = DictSet(@, keyword, n)]
            ELSE LET before_count == Cardinality(DOMAIN acc.json_data[keyword])
                     merged == DictUpdate(acc.json_data[keyword], papers)
                     after_count == Cardinality(DOMAIN merged)
                     added_count == AddedCount(before_count, after_count)
                 IN [counted EXCEPT
                       !.json_data = DictSet(@, keyword, merged),
                       !.category_updates =
                           IF added_count > 0 THEN DictSet(@, keyword, added_count)
                           ELSE @]
       ELSE [counted EXCEPT
               !.json_data = DictSet(@, keyword, papers),
               !.category_updates = DictSet(@, keyword, n)]

RECURSIVE MergeAll(_, _, _, _)
MergeAll(acc, data_dict, i, clear_existing) ==
    IF i > Len(data_dict) THEN acc
    ELSE LET data == data_dict[i]
             keyword == CHOOSE kw \in DOMAIN data : TRUE
         IN MergeAll(MergeKeyword(acc, keyword, data[keyword], clear_existing),
                     data_dict, i + 1, clear_existing)

\* existing_count > 0 guards the removal of the keywords no longer configured
PruneGuard(clear_existing, existing_count) ==
    ~clear_existing /\ existing_count > 0

\* a slip: the stored data loaded even when clear_existing is set
LoadExistingKept(file, clear_existing) ==
    IF file.empty THEN EmptyDict ELSE file.data

\* the dict m update_json_file starts from: empty when clear_existing is set
\* or the file has no content, the parsed content otherwise
LoadExisting(file, clear_existing) ==
    IF clear_existing \/ file.empty THEN EmptyDict ELSE file.data

\* update_json_file(filename, data_dict, current_keywords, clear_existing):
\* `file` is the content of filename before the call.  The result holds the
\* content after the call, the returned tuple, and whether open(filename, "r")
\* raised FileNotFoundError (nothing is written then).
update_json_file(file, data_dict, current_keywords, clear_existing) ==
    LET raises == ~clear_existing /\ ~file.exists
        m == LoadExisting(file, clear_existing)
        existing_count == CountPapers(m)
        pruned == IF PruneGuard(clear_existing, existing_count)
                  THEN remove_old_keywords(m, current_keywords)
                  ELSE [json_data |-> m, removed_keywords |-> EmptyDict]
        merged == MergeAll([json_data |-> pruned.json_data,
                            new_papers_count |-> 0,
                            category_updates |-> EmptyDict],
                           data_dict, 1, clear_existing)
    IN IF raises
       THEN [raised |-> TRUE, file |-> file, existing_count |-> 0,
             updated_count |-> 0, new_papers_count |-> 0,
             category_updates |-> EmptyDict, removed_keywords |-> EmptyDict]
       ELSE [raised |-> FALSE, file |-> JsonFile(merged.json_data),
             existing_count |-> existing_count,
             updated_count |-> CountPapers(merged.json_data),
             new_papers_count |-> merged.new_papers_count,
             category_updates |-> merged.category_updates,
             removed_keywords |-> pruned.removed_keywords]

---------------------------------------------------------------------------
(* parse_date_from_content and cleanup_old_papers *)

\* datetime.datetime.strptime(date_str, '%Y-%m-%d').date(); ok is FALSE when
\* it raises ValueError
strptime(date_str) ==
    IF date_str \in Nat /\ date_str >= 1
    THEN [ok |-> TRUE, date |-> date_str]
    ELSE [ok |-> FALSE, date |-> 0]

\* ok is FALSE where the function returns None
parse_date_from_content(paper_content) ==
    IF Len(paper_content) >= 2 /\ Len(paper_content) >= 3
    THEN strptime(StripBold(paper_content[2]))
    ELSE [ok |-> FALSE, date |-> 0]

\* a slip: the entries dated on the cutoff day dropped too
KeepPaperStrict(paper_content, cutoff_date) ==
    LET paper_date == parse_date_from_content(paper_content)
    IN ~paper_date.ok \/ paper_date.date > cutoff_date

\* the condition under which cleanup_old_papers keeps an entry
KeepPaper(paper_content, cutoff_date) ==
    LET paper_date == parse_date_from_content(paper_content)
    IN ~paper_date.ok \/ paper_date.date >= cutoff_date

\* cleanup_old_papers(filename, keep_days): the content of filename after
\* the call, and whether the call wrote the file
cleanup_old_papers(file, keep_days) ==
    IF keep_days <= 0 \/ file.empty
    THEN [file |-> file, wrote |-> FALSE]
    ELSE LET cutoff_date == Today - keep_days
             data == file.data
             kept == [category \in DOMAIN data |->
                        LET papers == data[category]
                        IN DictRestrict(papers,
                             {paper_id \in DOMAIN papers :
                                 KeepPaper(papers[paper_id], cutoff_date)})]
         IN [file |-> JsonFile(kept), wrote |-> TRUE]

---------------------------------------------------------------------------
(* sort_papers and json_to_md *)

\* keys.sort(reverse=True): the keys of papers, greatest first
RECURSIVE SortedKeys(_)
SortedKeys(keys) ==
    IF keys = {} THEN << >>
    ELSE LET top == CHOOSE k \in keys : \A j \in keys : j <= k
         IN <<top>> \o SortedKeys(keys \ {top})

\* sort_papers(papers): the items of the returned dict, in its order
sort_papers(papers) ==
    LET keys == SortedKeys(DOMAIN papers)
    IN [i \in 1..Len(keys) |-> <<keys[i], papers[keys[i]]>>]

\* v.strip().split('|'): the parts of a stored row without its line break
StripSplit(v) ==
    [i \in 1..Len(v) |-> IF i = Len(v) /\ v[i] = "\n" THEN "" ELSE v[i]]

\* the block the styled list writes for one row (the rows with fewer than 7
\* parts write nothing)
StyledItem(v, show_abstract) ==
    LET parts == StripSplit(v)
    IN [date |-> StripBold(parts[2]),
        title |-> StripBold(parts[3]),
        last_author |-> parts[4],
        categories |-> parts[5],
        paper_id |-> parts[6].id,
        paper_url |-> parts[6].url,
        comments |-> parts[7],
        abstract |-> IF show_abstract /\ Len(parts) >= 8 THEN parts[8] ELSE ""]

RECURSIVE StyledItems(_, _, _)
StyledItems(items, i, show_abstract) ==
    IF i > Len(items) THEN << >>
    ELSE LET v == items[i][2]
         IN (IF Len(StripSplit(v)) >= 7 THEN <<StyledItem(v, show_abstract)>>
             ELSE << >>)
            \o StyledItems(items, i + 1, show_abstract)

\* the header row of the table of a topic in the web layout, as its parts
TableHeader(show_abstract) ==
    IF show_abstract
    THEN <<"", "Publish Date", "Title", "Last Author", "Categories", "PDF",
           "Comments", "Abstract", "\n">>
    ELSE <<"", "Publish Date", "Title", "Last Author", "Categories", "PDF",
           "Comments", "\n">>

\* json_to_md(filename, md_filename, to_web, use_title, use_tc, use_b2t,
\* show_abstract): the content of md_filename after the call.  The file is
\* emptied (open "w+") and then written from the content of filename alone.
\* No modelled row holds a '$', so pretty_math returns its argument.
json_to_md(file, to_web, use_title, use_tc, use_b2t, show_abstract) ==
    LET data == IF file.empty THEN EmptyDict ELSE file.data
        shown == {keyword \in DOMAIN data : DOMAIN data[keyword] # {}}
    IN [front_matter |-> use_title /\ to_web,
        toc |-> IF use_tc THEN shown ELSE {},
        css |-> ~to_web,
        sections |->
            [keyword \in shown |->
                LET day_content == sort_papers(data[keyword])
                IN [styled |-> ~to_web,
                    header |-> IF to_web /\ use_title
                               THEN TableHeader(show_abstract) ELSE << >>,
                    items |-> IF ~to_web
                              THEN StyledItems(day_content, 1, show_abstract)
                              ELSE [i \in 1..Len(day_content) |-> day_content[i][2]],
                    back_to_top |-> use_b2t]]]

\* a document left by an earlier run
PriorDoc ==
    [front_matter |-> FALSE, toc |-> {"prior"}, css |-> FALSE,
     sections |-> "prior" :> [styled |-> FALSE, header |-> << >>,
                              items |-> <<MalformedRow(0)>>, back_to_top |-> FALSE]]

---------------------------------------------------------------------------
(* load_config *)

KeywordLists == {<<"A">>, <<"A", "B">>}

\* The configuration file.  date_range is "absent" (no date_range, or not
\* enabled), "invalid" (enabled, no date of it parses) or "valid" (enabled, at
\* least one of start_date and end_date parses).
RawConfigs ==
    [kv : KeywordLists,
     show_abstract : BOOLEAN,
     publish_readme : BOOLEAN,
     publish_gitpage : BOOLEAN,
     cleanup_enabled : BOOLEAN,
     keep_days : {0, 1},
     date_range : {"absent", "invalid", "valid"}]

load_config(raw) ==
    LET date_range_enabled == raw.date_range = "valid"
    IN [kv |-> raw.kv,
        show_abstract |-> raw.show_abstract,
        publish_readme |-> raw.publish_readme,
        publish_gitpage |-> raw.publish_gitpage,
        cleanup_enabled |-> IF date_range_enabled THEN FALSE ELSE raw.cleanup_enabled,
        keep_days |-> raw.keep_days,
        date_range_enabled |-> date_range_enabled]

\* keywords.keys()
ConfiguredTopics == {config.kv[i] : i \in 1..Len(config.kv)}

---------------------------------------------------------------------------
(* The store files the script may find when it starts *)

MaxInitPapers == 1

\* the row an earlier run stored for a paper, or a row with a malformed date
StoredRows(k) == {FormatRow(k, published[k], FALSE), MalformedRow(k)}

PaperDicts ==
    UNION {{d \in [S -> UNION {StoredRows(k) : k \in Keys}] :
               \A k \in S : d[k] \in StoredRows(k)} : S \in SUBSET Keys}

InitStores ==
    {m \in UNION {[T -> PaperDicts] : T \in SUBSET Topics} :
        CountPapers(m) <= MaxInitPapers}

InitFiles == {MissingFile, EmptyFile} \cup {JsonFile(m) : m \in InitStores}

---------------------------------------------------------------------------
(* demo *)

NoFetch == [topic |-> "", raised |-> FALSE, processed |-> {}]

NoReport ==
    [target |-> "", raised |-> FALSE, file |-> MissingFile, existing_count |-> 0,
     updated_count |-> 0, new_papers_count |-> 0,
     category_updates |-> EmptyDict, removed_keywords |-> EmptyDict,
     before |-> MissingFile, clear_existing |-> FALSE]

\* no cleanup_old_papers call
NoCleanup == [called |-> FALSE, file |-> MissingFile, keep_days |-> 0, at |-> ""]

\* no text function called
NoCall == [op |-> "", arg |-> << >>, ret |-> << >>]

Init ==
    /\ published \in [Keys -> Days]
    /\ config \in {load_config(raw) : raw \in RawConfigs}
    /\ \E f \in InitFiles : files = [t \in Targets |-> f]
    /\ docs = [t \in Targets |-> PriorDoc]
    /\ data_collector = << >>
    /\ fetch = NoFetch
    /\ report = NoReport
    /\ start = files
    /\ pc = "fetch"
    /\ cleanup = [t \in Targets |-> NoCleanup]
    /\ failed = {}
    /\ call = NoCall

\* one pass of the loop "for topic, keyword in keywords.items()"
FetchTopic ==
    /\ pc = "fetch"
    /\ Len(data_collector) < Len(config.kv)
    /\ LET topic == config.kv[Len(data_collector) + 1]
       IN \E yielded \in SUBSET Keys, raised \in BOOLEAN :
            LET got == get_daily_papers(topic, yielded, raised, config.show_abstract)
            IN /\ data_collector' = Append(data_collector, got.data)
               /\ fetch' = got.log
               /\ failed' = IF raised THEN failed \cup {topic} ELSE failed
    /\ UNCHANGED <<files, docs, config, published, report, start, pc, cleanup, call>>

\* the loop is over: "Collected ... new papers from arXiv"
FetchDone ==
    /\ pc = "fetch"
    /\ Len(data_collector) = Len(config.kv)
    /\ fetch' = NoFetch
    /\ pc' = "readme"
    /\ UNCHANGED <<files, docs, config, published, data_collector, report, start, cleanup, failed, call>>

\* the cleanup step of a target: cleanup_old_papers runs only if cleanup is
\* enabled, no date range is and the file exists
CleanupStep(target, next) ==
    LET json_exists == files[target].exists
        called == config.cleanup_enabled /\ ~config.date_range_enabled /\ json_exists
    IN /\ files' = [files EXCEPT ![target] =
                      IF called THEN cleanup_old_papers(@, config.keep_days).file
                      ELSE @]
       /\ cleanup' = [cleanup EXCEPT ![target] =
                        IF called
                        THEN [called |-> TRUE, file |-> files[target],
                              keep_days |-> config.keep_days, at |-> pc]
                        ELSE @]
       /\ pc' = next
       /\ UNCHANGED <<docs, config, published, data_collector, fetch, report, start,
                      failed, call>>

\* a slip: the store always merged, clear_existing never passed as true
UpdateStepMergeOnly(target, next) ==
    LET r == update_json_file(files[target], data_collector, ConfiguredTopics, FALSE)
    IN /\ files' = [files EXCEPT ![target] = r.file]
       /\ report' = [target |-> target, raised |-> r.raised, file |-> r.file,
                     existing_count |-> r.existing_count,
                     updated_count |-> r.updated_count,
                     new_papers_count |-> r.new_papers_count,
                     category_updates |-> r.category_updates,
                     removed_keywords |-> r.removed_keywords,
                     before |-> files[target],
                     clear_existing |-> FALSE]
       /\ pc' = IF r.raised THEN "crashed" ELSE next
       /\ UNCHANGED <<docs, config, published, data_collector, fetch, start, cleanup, failed, call>>

\* the update step of a target; FileNotFoundError ends the script
UpdateStep(target, next) ==
    LET r == update_json_file(files[target], data_collector, ConfiguredTopics,
                              config.date_range_enabled)
    IN /\ files' = [files EXCEPT ![target] = r.file]
       /\ report' = [target |-> target, raised |-> r.raised, file |-> r.file,
                     existing_count |-> r.existing_count,
                     updated_count |-> r.updated_count,
                     new_papers_count |-> r.new_papers_count,
                     category_updates |-> r.category_updates,
                     removed_keywords |-> r.removed_keywords,
                     before |-> files[target],
                     clear_existing |-> config.date_range_enabled]
       /\ pc' = IF r.raised THEN "crashed" ELSE next
       /\ UNCHANGED <<docs, config, published, data_collector, fetch, start, cleanup, failed, call>>

ReadmeSkip ==
    /\ pc = "readme"
    /\ ~config.publish_readme
    /\ pc' = "gitpage"
    /\ UNCHANGED <<files, docs, config, published, data_collector, fetch, report, start, cleanup, failed, call>>

ReadmeCleanup ==
    /\ pc = "readme"
    /\ config.publish_readme
    /\ CleanupStep("readme", "readme_update")

\* a slip: the store pruned after the merge, the fetched entries included
ReadmeUpdatePruned ==
    /\ pc = "readme_update"
    /\ LET r == update_json_file(files["readme"], data_collector, ConfiguredTopics,
                                 config.date_range_enabled)
       IN /\ files' = [files EXCEPT !["readme"] =
                         IF cleanup["readme"].called
                         THEN cleanup_old_papers(r.file, config.keep_days).file
                         ELSE r.file]
          /\ report' = [target |-> "readme", raised |-> r.raised, file |-> r.file,
                        existing_count |-> r.existing_count,
                        updated_count |-> r.updated_count,
                        new_papers_count |-> r.new_papers_count,
                        category_updates |-> r.category_updates,
                        removed_keywords |-> r.removed_keywords,
                        before |-> files["readme"],
                        clear_existing |-> config.date_range_enabled]
          /\ pc' = IF r.raised THEN "crashed" ELSE "readme_md"
    /\ UNCHANGED <<docs, config, published, data_collector, fetch, start, cleanup, failed, call>>

ReadmeUpdate ==
    /\ pc = "readme_update"
    /\ UpdateStep("readme", "readme_md")

\* a slip: the document rendered from the store as it was read at the start
ReadmeRenderStale ==
    /\ pc = "readme_md"
    /\ docs' = [docs EXCEPT !["readme"] =
                  json_to_md(start["readme"], FALSE, TRUE, TRUE, TRUE,
                             config.show_abstract)]
    /\ pc' = "gitpage"
    /\ UNCHANGED <<files, config, published, data_collector, fetch, report, start, cleanup, failed, call>>

ReadmeRender ==
    /\ pc = "readme_md"
    /\ docs' = [docs EXCEPT !["readme"] =
                  json_to_md(files["readme"], FALSE, TRUE, TRUE, TRUE,
                             config.show_abstract)]
    /\ pc' = "gitpage"
    /\ UNCHANGED <<files, config, published, data_collector, fetch, report, start, cleanup, failed, call>>

GitpageSkip ==
    /\ pc = "gitpage"
    /\ ~config.publish_gitpage
    /\ pc' = "done"
    /\ UNCHANGED <<files, docs, config, published, data_collector, fetch, report, start, cleanup, failed, call>>

GitpageCleanup ==
    /\ pc = "gitpage"
    /\ config.publish_gitpage
    /\ CleanupStep("gitpage", "gitpage_update")

GitpageUpdate ==
    /\ pc = "gitpage_update"
    /\ UpdateStep("gitpage", "gitpage_md")

GitpageRender ==
    /\ pc = "gitpage_md"
    /\ docs' = [docs EXCEPT !["gitpage"] =
                  json_to_md(files["gitpage"], TRUE, TRUE, FALSE, FALSE, FALSE)]
    /\ pc' = "done"
    /\ UNCHANGED <<files, config, published, data_collector, fetch, report, start, cleanup, failed, call>>

Next ==
    \/ FetchTopic
    \/ FetchDone
    \/ ReadmeSkip
    \/ ReadmeCleanup
    \/ ReadmeUpdate
    \/ ReadmeRender
    \/ GitpageSkip
    \/ GitpageCleanup
    \/ GitpageUpdate
    \/ GitpageRender

Spec == Init /\ [][Next]_vars

---------------------------------------------------------------------------
(* Text: the strings the script builds and takes apart, character by        *)
(* character.  A string is the sequence of its characters.                  *)

MaxText == 5
MaxTitle == 3

Strings(chars, n) == UNION {[1..m -> chars] : m \in 0..n}

\* c.isspace()
IsSpace(c) == c \in {" ", "\n"}

\* s.lstrip()
RECURSIVE lstrip(_)
lstrip(s) ==
    IF s # << >> /\ IsSpace(Head(s)) THEN lstrip(Tail(s)) ELSE s

\* s.rstrip()
RECURSIVE rstrip(_)
rstrip(s) ==
    IF s # << >> /\ IsSpace(s[Len(s)]) THEN rstrip(SubSeq(s, 1, Len(s) - 1)) ELSE s

\* s.strip()
strip(s) == rstrip(lstrip(s))

\* s.split(sep), sep one character
RECURSIVE split(_, _)
split(s, sep) ==
    IF \A i \in 1..Len(s) : s[i] # sep THEN <<s>>
    ELSE LET pos == CHOOSE i \in 1..Len(s) :
                        s[i] = sep /\ \A j \in 1..(i - 1) : s[j] # sep
         IN <<SubSeq(s, 1, pos - 1)>> \o split(SubSeq(s, pos + 1, Len(s)), sep)

\* s.replace('**', '')
RECURSIVE replace_bold(_)
replace_bold(s) ==
    IF Len(s) < 2 THEN s
    ELSE IF s[1] = "*" /\ s[2] = "*" THEN replace_bold(SubSeq(s, 3, Len(s)))
    ELSE <<s[1]>> \o replace_bold(Tail(s))

\* "; ".join(categories) if categories else ""
RECURSIVE join_categories(_)
join_categories(categories) ==
    IF categories = << >> THEN << >>
    ELSE IF Len(categories) = 1 THEN categories[1]
    ELSE categories[1] \o <<";", " ">> \o join_categories(Tail(categories))

\* the characters of the row get_daily_papers formats for one result (r
\* holds the texts formatted into it)
format_row(r, show_abstract) ==
    <<"|", "*", "*">> \o r.paper_date \o <<"*", "*", "|", "*", "*">> \o r.paper_title
    \o <<"*", "*", "|">> \o r.paper_last_author \o <<"|">> \o r.categories_str
    \o <<"|", "[">> \o r.paper_key \o <<"]", "(">> \o r.paper_url \o <<")", "|">>
    \o r.comments_str \o <<"|">>
    \o (IF show_abstract THEN r.abstract_str \o <<"|">> ELSE << >>) \o <<"\n">>

\* what the styled list of json_to_md reads from a stored row v; written is
\* FALSE when the row has fewer than 7 parts and nothing is written for it
parse_row(v) ==
    LET parts == split(strip(v), "|")
    IN IF Len(parts) >= 7
       THEN [written |-> TRUE,
             date |-> strip(replace_bold(parts[2])),
             title |-> strip(replace_bold(parts[3])),
             last_author |-> strip(parts[4]),
             categories |-> strip(parts[5])]
       ELSE [written |-> FALSE, date |-> << >>, title |-> << >>,
             last_author |-> << >>, categories |-> << >>]

\* a slip: the key cut at the last 'v' of the id
paper_key_rfind(paper_id) ==
    LET vs == {i \in 1..Len(paper_id) : paper_id[i] = "v"}
    IN IF vs = {} THEN paper_id
       ELSE SubSeq(paper_id, 1, (CHOOSE i \in vs : \A j \in vs : j <= i) - 1)

\* paper_id.find('v') and the slice that makes the entry key
paper_key_of(paper_id) ==
    LET vs == {i \in 1..Len(paper_id) : paper_id[i] = "v"}
    IN IF vs = {} THEN paper_id
       ELSE LET ver_pos == CHOOSE i \in vs : \A j \in vs : i <= j
            IN SubSeq(paper_id, 1, ver_pos - 1)

\* the positions of the '$' characters of s
Dollars(s) == {i \in 1..Len(s) : s[i] = "$"}

\* a slip: the emphasis marker '*' next to the span not looked at
pretty_math_no_star(s) ==
    IF Cardinality(Dollars(s)) < 2 THEN s
    ELSE LET math_start == CHOOSE i \in Dollars(s) : \A j \in Dollars(s) : i <= j
             math_end == CHOOSE i \in Dollars(s) : \A j \in Dollars(s) : j <= i
             math_content == SubSeq(s, math_start + 1, math_end - 1)
             before_math == SubSeq(s, 1, math_start - 1)
             after_math == SubSeq(s, math_end + 1, Len(s))
             space_before == IF before_math # << >>
                                /\ ~IsSpace(before_math[Len(before_math)])
                             THEN <<" ">> ELSE << >>
             space_after == IF after_math # << >> /\ ~IsSpace(after_math[1])
                            THEN <<" ">> ELSE << >>
         IN before_math \o space_before \o <<"$">> \o strip(math_content)
            \o <<"$">> \o space_after \o after_math

\* pretty_math(s): re.search(r"\$.*\$", s) matches from the first '$' of s to
\* the last one (s holds no line break here)
pretty_math(s) ==
    IF Cardinality(Dollars(s)) < 2 THEN s
    ELSE LET math_start == CHOOSE i \in Dollars(s) : \A j \in Dollars(s) : i <= j
             math_end == CHOOSE i \in Dollars(s) : \A j \in Dollars(s) : j <= i
             math_content == SubSeq(s, math_start + 1, math_end - 1)
             before_math == SubSeq(s, 1, math_start - 1)
             after_math == SubSeq(s, math_end + 1, Len(s))
             space_before == IF before_math # << >>
                                /\ ~IsSpace(before_math[Len(before_math)])
                                /\ before_math[Len(before_math)] # "*"
                             THEN <<" ">> ELSE << >>
             space_after == IF after_math # << >> /\ ~IsSpace(after_math[1])
                               /\ after_math[1] # "*"
                            THEN <<" ">> ELSE << >>
         IN before_math \o space_before \o <<"$">> \o strip(math_content)
            \o <<"$">> \o space_after \o after_math

---------------------------------------------------------------------------
(* The text functions called on their own: a text input is chosen and the   *)
(* function it is meant for is applied to it.                               *)

MathChars == {"a", " ", "*", "$"}

\* the titles, comments and abstracts pretty_math is given
MathTexts == Strings(MathChars, MaxText)

TitleChars == {"a", " ", "|", "*"}

\* result.title: a text that neither starts nor ends with white space
Titles ==
    {t \in Strings(TitleChars, MaxTitle) :
        t # << >> /\ ~IsSpace(t[1]) /\ ~IsSpace(t[Len(t)])}

\* result.categories
CategoryLists ==
    {<< >>, <<<<"c", "s", ".", "R", "O">>>>,
     <<<<"c", "s", ".", "R", "O">>, <<"c", "s", ".", "C", "V">>>>}

\* str(result.published.date())
DateTexts ==
    {<<"2", "0", "2", "4", "-", "0", "1", "-", "0", "2">>,
     <<"2", "0", "0", "6", "-", "1", "1", "-", "3", "0">>}

\* the results of the provider, as the texts get_daily_papers formats
Results ==
    [paper_date : DateTexts,
     paper_title : Titles,
     paper_last_author : {<<"A", ".", " ", "B">>},
     categories_str : {join_categories(c) : c \in CategoryLists},
     paper_key : {<<"1", ".", "1">>},
     paper_url : {<<"u", "/", "1", ".", "1">>},
     comments_str : {<< >>, <<"a">>},
     abstract_str : {<<"a", " ", "a">>}]

IdDigits == {"1", "2"}

\* the letters of an archive name; "v" is the letter the version suffix
\* starts with (as in solv-int)
ArchiveChars == {"s", "v"}

\* identifiers of the form number.number
NewStyleIds == {<<a, ".", b>> : a \in IdDigits, b \in IdDigits}

\* identifiers of the form archive/number
OldStyleIds ==
    {archive \o <<"/", d>> :
        archive \in Strings(ArchiveChars, 2) \ {<< >>}, d \in IdDigits}

BaseIds == NewStyleIds \cup OldStyleIds

VersionSuffixes == {<< >>} \cup {<<"v", d>> : d \in IdDigits}

\* result.get_short_id()
ShortIds == {base \o suffix : base \in BaseIds, suffix \in VersionSuffixes}

TextInputs ==
    {[fn |-> "pretty_math", s |-> s] : s \in MathTexts}
    \cup {[fn |-> "paper_key", s |-> s] : s \in ShortIds}
    \cup {[fn |-> "row", result |-> r, show_abstract |-> b] :
             r \in Results, b \in BOOLEAN}

TextInit ==
    /\ published = [k \in Keys |-> 1]
    /\ config = load_config([kv |-> <<"A">>, show_abstract |-> FALSE,
                             publish_readme |-> FALSE, publish_gitpage |-> FALSE,
                             cleanup_enabled |-> FALSE, keep_days |-> 0,
                             date_range |-> "absent"])
    /\ files = [t \in Targets |-> MissingFile]
    /\ docs = [t \in Targets |-> PriorDoc]
    /\ data_collector = << >>
    /\ fetch = NoFetch
    /\ report = NoReport
    /\ start = files
    /\ pc = "text"
    /\ cleanup = [t \in Targets |-> NoCleanup]
    /\ failed = {}
    /\ \E input \in TextInputs : call = [op |-> "", arg |-> input, ret |-> << >>]

\* f.write(pretty_math(...))
PrettyMathCall ==
    /\ pc = "text" /\ call.op = "" /\ call.arg.fn = "pretty_math"
    /\ call' = [op |-> "pretty_math", arg |-> call.arg, ret |-> pretty_math(call.arg.s)]
    /\ UNCHANGED <<files, docs, config, published, data_collector, fetch, report, start, pc, cleanup, failed>>

\* the entry key get_daily_papers makes of result.get_short_id()
PaperKeyCall ==
    /\ pc = "text" /\ call.op = "" /\ call.arg.fn = "paper_key"
    /\ call' = [op |-> "paper_key", arg |-> call.arg, ret |-> paper_key_of(call.arg.s)]
    /\ UNCHANGED <<files, docs, config, published, data_collector, fetch, report, start, pc, cleanup, failed>>

\* a result formatted by get_daily_papers, stored (json.dump and json.loads
\* give the text back as it was) and read by the styled list of json_to_md
RowCall ==
    /\ pc = "text" /\ call.op = "" /\ call.arg.fn = "row"
    /\ LET v == format_row(call.arg.result, call.arg.show_abstract)
       IN call' = [op |-> "row", arg |-> call.arg,
                   ret |-> [row |-> v, parsed |-> parse_row(v)]]
    /\ UNCHANGED <<files, docs, config, published, data_collector, fetch, report, start, pc, cleanup, failed>>

TextNext ==
    \/ PrettyMathCall
    \/ PaperKeyCall
    \/ RowCall

TextSpec == TextInit /\ [][TextNext]_vars

---------------------------------------------------------------------------
(* Properties *)

\* the fetched batch as one dict: topic -> (entry key -> row)
Batch ==
    [topic \in {config.kv[i] : i \in 1..Len(data_collector)} |->
        LET i == CHOOSE j \in 1..Len(data_collector) : config.kv[j] = topic
        IN data_collector[i][topic]]

\* update_json_file has just returned to demo; report describes the call
UpdateReturned == pc \in {"readme_md", "gitpage_md"}

MergeReturned == UpdateReturned /\ ~config.date_range_enabled

ReplaceReturned == UpdateReturned /\ config.date_range_enabled

\* C1: running update_json_file once more with the same batch, the same
\* configured topics and the same clear_existing leaves the persisted store
\* as the first run left it.
C1_ReconcileIdempotent ==
    UpdateReturned =>
        update_json_file(report.file, data_collector, ConfiguredTopics,
                         config.date_range_enabled).file = report.file

\* C2: after update_json_file with clear_existing false, every topic of the
\* prior store that is not configured is gone from the persisted store and
\* its prior entry count is reported, whatever the prior store held.
C2_StaleTopicsPruned ==
    MergeReturned =>
        \A topic \in (DOMAIN report.before.data) \ ConfiguredTopics :
            /\ topic \notin DOMAIN report.file.data
            /\ topic \in DOMAIN report.removed_keywords
            /\ report.removed_keywords[topic]
                 = Cardinality(DOMAIN report.before.data[topic])

\* C3: after update_json_file with clear_existing true the persisted store
\* is exactly the fetched batch: each topic of the batch holds the fetched
\* mapping and nothing stored before the call survives.
C3_ReplaceNotMerge ==
    ReplaceReturned => report.file = JsonFile(Batch)

\* a replace over a prior store that held, under a fetched topic, a key the
\* batch does not hold
C3_Witness ==
    /\ ReplaceReturned
    /\ \E topic \in (DOMAIN report.before.data) \cap (DOMAIN Batch) :
          /\ DOMAIN Batch[topic] # {}
          /\ (DOMAIN report.before.data[topic]) \ (DOMAIN Batch[topic]) # {}

\* the added count demo is given for a topic (a topic left out of
\* category_updates has no addition logged)
Reported(topic) ==
    IF topic \in DOMAIN report.category_updates
    THEN report.category_updates[topic] ELSE 0

\* C4: in merge mode the added count of a fetched topic already in the store
\* is the number of fetched keys not stored under it before (post-merge minus
\* pre-merge key count, zero when every fetched key was stored); a topic new
\* to the store reports the size of its fetched mapping.
C4_AddedCount ==
    MergeReturned =>
        \A topic \in DOMAIN Batch :
            IF topic \in DOMAIN report.before.data
            THEN /\ Reported(topic)
                      = Cardinality((DOMAIN Batch[topic])
                                     \ (DOMAIN report.before.data[topic]))
                 /\ Reported(topic)
                      = Cardinality(DOMAIN report.file.data[topic])
                        - Cardinality(DOMAIN report.before.data[topic])
            ELSE /\ topic \in DOMAIN report.category_updates
                 /\ report.category_updates[topic] = Cardinality(DOMAIN Batch[topic])

\* a merge into a stored topic of one key already stored and one new key
C4_Witness ==
    /\ MergeReturned
    /\ \E topic \in (DOMAIN Batch) \cap (DOMAIN report.before.data) :
          /\ (DOMAIN Batch[topic]) \cap (DOMAIN report.before.data[topic]) # {}
          /\ (DOMAIN Batch[topic]) \ (DOMAIN report.before.data[topic]) # {}
          /\ Reported(topic) = 1

UpdatePc(target) == IF target = "readme" THEN "readme_update" ELSE "gitpage_update"

Published(target) ==
    IF target = "readme" THEN config.publish_readme ELSE config.publish_gitpage

\* demo calls cleanup_old_papers for the target
CleanupCalled(target) ==
    config.cleanup_enabled /\ ~config.date_range_enabled /\ start[target].exists

\* cleanup_old_papers has just returned for the target, with keep_days > 0
CleanupReturned(target) ==
    pc = UpdatePc(target) /\ CleanupCalled(target) /\ config.keep_days > 0

\* the date field of a row: its second part without the bold markup
DateText(row) == row[2].text

IsDateText(text) == text \in Nat \ {0}

\* C5: for keep_days > 0, after cleanup_old_papers an entry of the store is
\* still stored if and only if its date field does not parse as a date or is
\* on or after today - keep_days; the rows kept and the topics are unchanged.
C5_Retention ==
    \A target \in Targets :
        CleanupReturned(target) =>
            LET before == start[target].data
                after == files[target].data
            IN /\ DOMAIN after = DOMAIN before
               /\ \A topic \in DOMAIN before :
                    /\ DOMAIN after[topic] \subseteq DOMAIN before[topic]
                    /\ \A k \in DOMAIN before[topic] :
                         LET text == DateText(before[topic][k])
                         IN /\ k \in DOMAIN after[topic]
                                <=> (~IsDateText(text)
                                     \/ text >= Today - config.keep_days)
                            /\ k \in DOMAIN after[topic]
                                => after[topic][k] = before[topic][k]

\* the pruner has removed an entry dated before the cutoff
C5_Witness ==
    /\ CleanupReturned("readme")
    /\ \E topic \in DOMAIN start["readme"].data :
          \E k \in DOMAIN start["readme"].data[topic] :
             /\ IsDateText(DateText(start["readme"].data[topic][k]))
             /\ k \notin DOMAIN files["readme"].data[topic]

\* the publish date an item of a rendered section shows
ItemDate(section, i) ==
    IF section.styled THEN section.items[i].date
    ELSE StripBold(section.items[i][2])

\* C6: in every rendered document the entries of every topic section appear
\* in descending order of their publish date.
C6_RenderOrder ==
    \A target \in Targets :
        \A keyword \in DOMAIN docs[target].sections :
            LET section == docs[target].sections[keyword]
            IN \A i, j \in 1..Len(section.items) :
                 i < j => ItemDate(section, i) >= ItemDate(section, j)

\* C7: a get_daily_papers call in which the provider raised returns an empty
\* entry mapping for its topic, and demo leaves the fetch loop only with one
\* mapping per configured topic.
C7_FetchFailureIsolated ==
    /\ fetch.raised =>
          data_collector[Len(data_collector)][fetch.topic] = EmptyDict
    /\ pc # "fetch" => Len(data_collector) = Len(config.kv)

\* C8: a run whose target store file is empty or missing completes, and the
\* store persisted for the target is then exactly the fetched batch.
C8_EmptyOrMissingStore ==
    \A target \in Targets :
        (Published(target) /\ (~start[target].exists \/ start[target].empty)) =>
            /\ pc # "crashed"
            /\ pc = "done" => files[target] = JsonFile(Batch)

\* the store the invocation persists for the target in the end
FinalStore(target) ==
    LET pruned == IF CleanupCalled(target)
                  THEN cleanup_old_papers(start[target], config.keep_days).file
                  ELSE start[target]
    IN update_json_file(pruned, data_collector, ConfiguredTopics,
                        config.date_range_enabled).file

\* C9: at every point of an invocation the store file of a target holds
\* either the store as it was before the invocation or the complete pruned
\* and reconciled store of the invocation.
C9_AllOrNothing ==
    \A target \in Targets :
        \/ files[target] = start[target]
        \/ files[target] = FinalStore(target)

\* the entry key an item of a rendered section shows (in its link)
ItemKey(section, i) ==
    IF section.styled THEN section.items[i].paper_id ELSE section.items[i][6].id

\* the item shows the stored row
ItemShows(section, i, row) ==
    IF section.styled
    THEN /\ section.items[i].date = row[2].text
         /\ section.items[i].title = row[3].text
         /\ section.items[i].last_author = row[4]
         /\ section.items[i].categories = row[5]
         /\ section.items[i].paper_url = row[6].url
         /\ section.items[i].comments = row[7]
    ELSE section.items[i] = row

\* C10: at the end of a run, the document of every enabled target shows
\* exactly the entries of the non-empty topics of the store persisted for
\* that target in the run (each entry once, with the stored row's values),
\* and nothing of the document's previous content.
C10_StoreDocumentConsistent ==
    pc = "done" =>
        \A target \in Targets :
            Published(target) =>
                LET data == files[target].data
                    sections == docs[target].sections
                IN /\ files[target] = FinalStore(target)
                   /\ DOMAIN sections
                        = {topic \in DOMAIN data : DOMAIN data[topic] # {}}
                   /\ docs[target].toc \subseteq DOMAIN sections
                   /\ \A topic \in DOMAIN sections :
                        LET section == sections[topic]
                            n == Len(section.items)
                        IN /\ n = Cardinality(DOMAIN data[topic])
                           /\ {ItemKey(section, i) : i \in 1..n} = DOMAIN data[topic]
                           /\ \A i \in 1..n :
                                ItemShows(section, i,
                                          data[topic][ItemKey(section, i)])

\* a run of both targets that changed the store and rendered a topic of two
\* entries
C10_Witness ==
    /\ pc = "done"
    /\ config.publish_readme /\ config.publish_gitpage
    /\ files["readme"] # start["readme"]
    /\ \E topic \in DOMAIN docs["readme"].sections :
          Len(docs["readme"].sections[topic].items) = 2
    /\ \E topic \in DOMAIN docs["gitpage"].sections :
          Len(docs["gitpage"].sections[topic].items) = 2

CleanupPc(target) == IF target = "readme" THEN "readme" ELSE "gitpage"

\* update_json_file has returned for the target in this run
Reconciled(target) ==
    /\ Published(target)
    /\ IF target = "readme"
       THEN pc \in {"readme_md", "gitpage", "gitpage_update", "gitpage_md", "done"}
       ELSE pc \in {"gitpage_md", "done"}

\* C11: in a run with a custom date range active, cleanup_old_papers is
\* called for no target and no store is touched before its update,
\* update_json_file is called with clear_existing true for every enabled
\* target, the run is not aborted, and the store persisted for every enabled
\* target at the end of the run is exactly the fetched batch.
C11_DateRangeSupersedesRetention ==
    config.date_range_enabled =>
        /\ pc # "crashed"
        /\ \A target \in Targets :
              /\ ~cleanup[target].called
              /\ pc = UpdatePc(target) => files[target] = start[target]
              /\ report.target = target => report.clear_existing
              /\ Reconciled(target) => report.target # ""
              /\ (pc = "done" /\ Published(target)) => files[target] = JsonFile(Batch)

\* a finished date-range run of both targets, with keep_days > 0, over a
\* store that held an entry older than the retention cutoff which the batch
\* does not hold
C11_Witness ==
    /\ pc = "done"
    /\ config.date_range_enabled
    /\ config.keep_days > 0
    /\ config.publish_readme /\ config.publish_gitpage
    /\ CountPapers(Batch) > 0
    /\ \E topic \in DOMAIN start["readme"].data :
          \E k \in DOMAIN start["readme"].data[topic] :
             /\ IsDateText(DateText(start["readme"].data[topic][k]))
             /\ DateText(start["readme"].data[topic][k]) < Today - config.keep_days
             /\ (topic \notin DOMAIN Batch \/ k \notin DOMAIN Batch[topic])

\* C12: when cleanup_old_papers is called for a target it is called in the
\* target's cleanup step, before the target's update_json_file call, on the
\* store file as it was before the run; and once the target's update has
\* returned, every entry fetched in the run is stored under its topic with
\* the fetched row, whatever its publish date.
C12_PruneBeforeReconcile ==
    \A target \in Targets :
        cleanup[target].called =>
            /\ cleanup[target].at = CleanupPc(target)
            /\ cleanup[target].file = start[target]
            /\ pc = UpdatePc(target) => report.target # target
            /\ Reconciled(target) =>
                  \A topic \in DOMAIN Batch :
                      /\ topic \in DOMAIN files[target].data
                      /\ \A k \in DOMAIN Batch[topic] :
                            /\ k \in DOMAIN files[target].data[topic]
                            /\ files[target].data[topic][k] = Batch[topic][k]

\* the pruner removed a stored entry and the run then fetched and stored an
\* entry published before the retention cutoff
C12_Witness ==
    /\ cleanup["readme"].called
    /\ config.keep_days > 0
    /\ Reconciled("readme")
    /\ \E topic \in DOMAIN start["readme"].data :
          \E k \in DOMAIN start["readme"].data[topic] :
             topic \in DOMAIN files["readme"].data
             /\ k \notin DOMAIN files["readme"].data[topic]
    /\ \E topic \in DOMAIN Batch :
          \E k \in DOMAIN Batch[topic] :
             /\ published[k] < Today - config.keep_days
             /\ k \in DOMAIN files["readme"].data[topic]

\* C13: the title, date and categories the styled list reads from the row
\* formatted for a result are the title, date and categories string that
\* were formatted into the row.
C13_RowRoundTrip ==
    call.op = "row" =>
        /\ call.ret.parsed.written
        /\ call.ret.parsed.title = call.arg.result.paper_title
        /\ call.ret.parsed.date = call.arg.result.paper_date
        /\ call.ret.parsed.categories = call.arg.result.categories_str

\* C14: the entry key made of an id that is a base identifier followed by
\* an optional version suffix is the base identifier: an id without a suffix
\* is its own key, and the ids of one base all give the same key.
C14_KeyCanonical ==
    call.op = "paper_key" =>
        \A base \in BaseIds, suffix \in VersionSuffixes :
            call.arg.s = base \o suffix =>
                /\ call.ret = base
                /\ suffix = << >> => call.ret = call.arg.s
                /\ \A other \in VersionSuffixes :
                      paper_key_of(base \o other) = call.ret

\* the first and the second '$' of a text that holds two or more
FirstDollar(s) == CHOOSE i \in Dollars(s) : \A j \in Dollars(s) : i <= j

SecondDollar(s) ==
    CHOOSE i \in Dollars(s) \ {FirstDollar(s)} :
        \A j \in Dollars(s) \ {FirstDollar(s)} : i <= j

Blanks(n) == [i \in 1..n |-> " "]

\* t is x without the blanks x starts and ends with
IsTrimOf(t, x) ==
    /\ t = << >> \/ (t[1] # " " /\ t[Len(t)] # " ")
    /\ \E a, b \in 0..Len(x) : x = Blanks(a) \o t \o Blanks(b)

\* the text the claims describe for the span from position i to position j
\* of s: the inside trimmed, one blank added on a side exactly when a
\* character is there that is neither a blank nor '*'
SpanNormalized(r, s, i, j) ==
    LET before == SubSeq(s, 1, i - 1)
        inside == SubSeq(s, i + 1, j - 1)
        after == SubSeq(s, j + 1, Len(s))
        blank_before == IF i > 1 /\ s[i - 1] \notin {" ", "*"} THEN <<" ">> ELSE << >>
        blank_after == IF j < Len(s) /\ s[j + 1] \notin {" ", "*"} THEN <<" ">> ELSE << >>
    IN \E t \in {SubSeq(inside, a, b) : a \in 1..(Len(inside) + 1), b \in 0..Len(inside)} :
          /\ IsTrimOf(t, inside)
          /\ r = before \o blank_before \o <<"$">> \o t \o <<"$">> \o blank_after \o after

\* C15: for a text with one math span, pretty_math returns the text with the
\* inside of the span trimmed and one blank added on a side of the span
\* exactly when a character is there that is neither white space nor '*'; a
\* span with blanks around it and none inside its delimiters is returned
\* unchanged, no blank is added next to a '*', and a text without a span is
\* returned unchanged.
C15_MathSpanNormalized ==
    call.op = "pretty_math" =>
        LET s == call.arg.s
            r == call.ret
        IN /\ Cardinality(Dollars(s)) < 2 => r = s
           /\ Cardinality(Dollars(s)) = 2 =>
                LET i == FirstDollar(s)
                    j == SecondDollar(s)
                IN /\ SpanNormalized(r, s, i, j)
                   /\ ((i = 1 \/ s[i - 1] = " ") /\ (j = Len(s) \/ s[j + 1] = " ")
                       /\ IsTrimOf(SubSeq(s, i + 1, j - 1), SubSeq(s, i + 1, j - 1)))
                         => r = s
                   /\ (i > 1 /\ s[i - 1] = "*") => SubSeq(r, 1, i) = SubSeq(s, 1, i)
                   /\ (j < Len(s) /\ s[j + 1] = "*")
                         => /\ r[Len(r) - (Len(s) - j)] = "$"
                            /\ SubSeq(r, Len(r) - (Len(s) - j) + 1, Len(r))
                                 = SubSeq(s, j + 1, Len(s))

\* a span with a letter before it, a '*' after it and a blank inside it: a
\* blank was added before it, none after it, and the inside was trimmed
C15_Witness ==
    /\ call.op = "pretty_math"
    /\ Cardinality(Dollars(call.arg.s)) = 2
    /\ LET s == call.arg.s
           i == FirstDollar(s)
           j == SecondDollar(s)
       IN /\ i > 1 /\ s[i - 1] = "a"
          /\ j < Len(s) /\ s[j + 1] = "*"
          /\ j > i + 1 /\ s[i + 1] = " "
          /\ Len(call.ret) = Len(s)
          /\ call.ret # s

\* C16: for a text with two or more math spans, pretty_math normalizes the
\* span from the first '$' to the next '$' and leaves every character after
\* that span's closing '$' as it was.
C16_FirstSpanOnly ==
    (call.op = "pretty_math" /\ Cardinality(Dollars(call.arg.s)) >= 4) =>
        SpanNormalized(call.ret, call.arg.s,
                       FirstDollar(call.arg.s), SecondDollar(call.arg.s))

\* C17: after update_json_file with clear_existing false, every entry that
\* was stored under a configured topic is still stored under it, with the
\* fetched row if the batch holds its key for the topic and with its stored
\* row otherwise; the stored entries of a topic whose fetch failed or
\* returned nothing are unchanged.
C17_MergeKeepsConfigured ==
    MergeReturned =>
        \A topic \in (DOMAIN report.before.data) \cap ConfiguredTopics :
            LET before == report.before.data[topic]
            IN /\ topic \in DOMAIN report.file.data
               /\ \A k \in DOMAIN before :
                    /\ k \in DOMAIN report.file.data[topic]
                    /\ report.file.data[topic][k]
                         = IF k \in DOMAIN Batch[topic] THEN Batch[topic][k]
                           ELSE before[k]
               /\ (topic \in failed \/ Batch[topic] = EmptyDict) =>
                    \A k \in DOMAIN before : report.file.data[topic][k] = before[k]

\* C18: in the document of the secondary target every entry row written
\* under a topic has as many '|'-separated parts as the header row written
\* for the topic.
C18_PlainTableShape ==
    \A keyword \in DOMAIN docs["gitpage"].sections :
        LET section == docs["gitpage"].sections[keyword]
        IN (~section.styled /\ section.header # << >>) =>
              \A i \in 1..Len(section.items) :
                  Len(section.items[i]) = Len(section.header)

=============================================================================
